---- MODULE Spec2Model ----
(***************************************************************************)
(* The git-queue action: a named job slot whose log is the commit history  *)
(* of a git branch.  Each process works on its own clone (local) of one    *)
(* shared remote; Queue instances read the local log, append one commit    *)
(* per createJob / markJobAsDone and start a push that nobody awaits.      *)
(* Strings that the code compares (subjects, names, payloads) are tuples   *)
(* of one-character strings, so endsWith / startsWith / trim are computed. *)
(***************************************************************************)
EXTENDS Integers, Sequences, FiniteSets, TLC

(* ------------------------------ bounds --------------------------------- *)

\* Number of commits createJob / markJobAsDone may add, over all processes.
MaxCommits == 3

\* Number of commits of a run that varies the commit options.
MaxOptionCommits == 2

\* The independent processes, each with its own clone of the remote.
Procs == {"p1", "p2"}

\* The process of a run in which nobody else writes to the remote.
Solo == {"p1"}

\* Queue names in use; "b" is a suffix of "ab".
Names == { <<"b">>, <<"a", "b">> }

\* Job payloads handed to createJob / markJobAsDone.
Payloads == { <<"x">>, <<" ", "y", "\n">> }

\* The payload the racing processes hand over.
RacePayloads == { <<" ", "y", "\n">> }

\* The payload of the runs that vary the commit options or the faults.
PlainPayloads == { <<"x">> }

\* Author identities a caller may supply; <<>> is the empty author.
Authors == { <<>>, <<"A", " ", "<", "a", ">">> }

\* Signing key ids a caller may supply; <<>> is the empty key id.
SigningKeyIds == { <<>>, <<"K">> }

\* What git.log() may fail with besides a branch without commits.
LogFaults == { "none", "LogReadFailure" }

(* ------------------------------ strings -------------------------------- *)

\* String.prototype.endsWith
EndsWith(s, suffix) ==
    /\ Len(suffix) <= Len(s)
    /\ SubSeq(s, Len(s) - Len(suffix) + 1, Len(s)) = suffix

\* String.prototype.startsWith
StartsWith(s, prefix) ==
    /\ Len(prefix) <= Len(s)
    /\ SubSeq(s, 1, Len(prefix)) = prefix

\* The characters String.prototype.trim removes.
WhiteSpace == {" ", "\n", "\t", "\r"}

RECURSIVE TrimStart(_)
TrimStart(s) ==
    IF s # <<>> /\ Head(s) \in WhiteSpace THEN TrimStart(Tail(s)) ELSE s

RECURSIVE TrimEnd(_)
TrimEnd(s) ==
    IF s # <<>> /\ s[Len(s)] \in WhiteSpace
    THEN TrimEnd(SubSeq(s, 1, Len(s) - 1))
    ELSE s

\* String.prototype.trim
Trim(s) == TrimEnd(TrimStart(s))

(* --------------------------- stored messages --------------------------- *)

CREATE_JOB_SUBJECT_PREFIX ==
    <<"C","L","A","I","M"," ","L","O","C","K",":"," ","J","O","B",":"," ">>

MARK_JOB_AS_DONE_SUBJECT_PREFIX ==
    <<"R","E","L","E","A","S","E"," ","L","O","C","K",":"," ",
      "J","O","B"," ","D","O","N","E",":"," ">>

\* The hash of the commit of the null message ('').
EmptyHash == 0

\* nullMessage(): the message that stands for "no message".
nullMessage ==
    [kind |-> "NullMessage",
     commit |-> [hash |-> EmptyHash, message |-> <<"n","o","-","m","e","s","s","a","g","e">>,
                 body |-> <<>>, author |-> <<>>]]

\* messageFactoryFromCommit: the kind of stored message a commit encodes,
\* decided from the subject's prefix; "Invalid" stands for the thrown Error.
messageFactoryFromCommit(commit) ==
    IF StartsWith(commit.message, CREATE_JOB_SUBJECT_PREFIX)
    THEN [kind |-> "StoredCreateJobMessage", commit |-> commit]
    ELSE IF StartsWith(commit.message, MARK_JOB_AS_DONE_SUBJECT_PREFIX)
    THEN [kind |-> "StoredMarkJobAsDoneMessage", commit |-> commit]
    ELSE [kind |-> "Invalid", commit |-> commit]

\* Message.isEmpty
isEmptyMessage(m) == m.kind = "NullMessage"

\* Message.commitHash
commitHash(m) == m.commit.hash

\* Message.payload without the trim.
payload_untrimmed(m) == m.commit.body

\* Message.payload
payload(m) == Trim(m.commit.body)

(* --------------------------- commit options ---------------------------- *)

\* CommitAuthor.isEmpty
authorIsEmpty(author) == author = <<>>

\* SigningKeyId.isEmpty
signingKeyIdIsEmpty(gpgSig) == gpgSig = <<>>

\* new CommitOptions(author, gpgSig, noGpgSig), for every value of the three.
CommitOptionsValues ==
    [author : Authors, gpgSig : SigningKeyIds, noGpgSig : BOOLEAN]

\* commitOptionsForTests(): an author, no signing key, the no-sign flag set.
commitOptionsForTests ==
    [author |-> <<"A", " ", "<", "a", ">">>, gpgSig |-> <<>>, noGpgSig |-> TRUE]

\* CommitOptions.forSimpleGit without the author's directive.
forSimpleGit_withoutAuthor(co) ==
    << [flag |-> "--allow-empty", value |-> "null"] >>
    \o (IF ~signingKeyIdIsEmpty(co.gpgSig)
        THEN << [flag |-> "--gpg-sign", value |-> co.gpgSig] >>
        ELSE <<>>)
    \o (IF co.noGpgSig
        THEN << [flag |-> "--no-gpg-sign", value |-> "null"] >>
        ELSE <<>>)

\* CommitOptions.forSimpleGit: the directives handed to git.commit, in the
\* order of the object's keys; a directive is [flag, value], "null" for null.
forSimpleGit(co) ==
    << [flag |-> "--allow-empty", value |-> "null"] >>
    \o (IF ~authorIsEmpty(co.author)
        THEN << [flag |-> "--author", value |-> <<"\"">> \o co.author \o <<"\"">>] >>
        ELSE <<>>)
    \o (IF ~signingKeyIdIsEmpty(co.gpgSig)
        THEN << [flag |-> "--gpg-sign", value |-> co.gpgSig] >>
        ELSE <<>>)
    \o (IF co.noGpgSig
        THEN << [flag |-> "--no-gpg-sign", value |-> "null"] >>
        ELSE <<>>)

\* The directives with one of the given flags, in their order.
RECURSIVE directives(_, _)
directives(options, flags) ==
    IF options = <<>> THEN <<>>
    ELSE IF Head(options).flag \in flags
         THEN <<Head(options)>> \o directives(Tail(options), flags)
         ELSE directives(Tail(options), flags)

\* git's ident: the quotes around a name and address are dropped.
RECURSIVE stripQuotes(_)
stripQuotes(s) ==
    IF s # <<>> /\ Head(s) = "\"" THEN stripQuotes(Tail(s))
    ELSE IF s # <<>> /\ s[Len(s)] = "\"" THEN stripQuotes(SubSeq(s, 1, Len(s) - 1))
    ELSE s

\* The author git records when no --author is given: the configured user.
configuredUser == <<"u", " ", "<", "u", ">">>

\* The author git records for a commit made with these directives.
recordedAuthor(options) ==
    LET a == directives(options, {"--author"})
    IN  IF a = <<>> THEN configuredUser ELSE stripQuotes(a[Len(a)].value)

\* The signature git puts on a commit made with these directives: of the
\* sign and no-sign directives the last one given wins; with neither the
\* local configuration decides.
recordedSignature(options) ==
    LET d == directives(options, {"--gpg-sign", "--no-gpg-sign"})
    IN  IF d = <<>> THEN [by |-> "configuration", key |-> <<>>]
        ELSE IF d[Len(d)].flag = "--gpg-sign"
        THEN [by |-> "key", key |-> d[Len(d)].value]
        ELSE [by |-> "nobody", key |-> <<>>]

(* ------------------------------- state --------------------------------- *)

VARIABLES
    remote,            \* the shared remote's branch log, most recent commit first
    local,             \* local[p]: the branch log of p's clone, most recent first
    remoteConfigured,  \* remoteConfigured[p]: git.remote([]) of p's clone is not ''
    isRepo,            \* isRepo[p]: git.checkIsRepo() of p's directory
    queue,             \* queue[p]: the Queue instance p constructed last, if any
    pushCalls,         \* pushCalls[p]: push() calls started and not awaited, by commit
    gitPushes,         \* gitPushes[p]: git.push() tasks started and not awaited
    result,            \* result[p]: what p's last call returned or threw
    nextHash           \* the identifier the next commit gets

vars == <<remote, local, remoteConfigured, isRepo, queue, pushCalls, gitPushes,
          result, nextHash>>

\* A commit that no queue wrote: its subject is neither prefix plus a name.
unrelatedCommit ==
    [hash |-> -1, message |-> <<"i","n","i","t">>, body |-> <<>>,
     author |-> configuredUser, signature |-> recordedSignature(<<>>)]

\* A commit that no queue wrote and whose subject ends like a queue's name.
unrelatedCommitNamingQueue ==
    [hash |-> -1, message |-> <<"f","i","x"," ","a","b">>, body |-> <<>>,
     author |-> configuredUser, signature |-> recordedSignature(<<>>)]

\* The history of earlier runs: queue "b" claimed its lock, then queue "ab"
\* claimed and released its own.
earlierJobs ==
    << [hash |-> -1, message |-> MARK_JOB_AS_DONE_SUBJECT_PREFIX \o <<"a","b">>,
        body |-> <<"x">>,
        author |-> configuredUser, signature |-> recordedSignature(<<>>)],
       [hash |-> -2, message |-> CREATE_JOB_SUBJECT_PREFIX \o <<"a","b">>,
        body |-> <<"x">>,
        author |-> configuredUser, signature |-> recordedSignature(<<>>)],
       [hash |-> -3, message |-> CREATE_JOB_SUBJECT_PREFIX \o <<"b">>,
        body |-> <<"x">>,
        author |-> configuredUser, signature |-> recordedSignature(<<>>)] >>

\* The branch logs the clones start from (hashes below zero): no commits
\* yet, commits that are no queue's events, or the history of earlier runs.
InitialLogs ==
    { <<>>, <<unrelatedCommit>>, <<unrelatedCommitNamingQueue>>, earlierJobs }

noQueue == [exists |-> FALSE, name |-> <<>>, storedMessages |-> <<>>]

noResult ==
    [op |-> "none", status |-> "none", hash |-> EmptyHash, payload |-> <<>>,
     pending |-> EmptyHash, outputs |-> {}]

(* ------------------------------ Queue ---------------------------------- *)

\* Queue.commitBelongsToQueue
commitBelongsToQueue(name, commit) == EndsWith(commit.message, name)

\* SimpleGit.log(): ok with the commits, the error of a branch that has no
\* commits yet, or another failure of the read.
gitLog(log, fault) ==
    IF fault # "none"
    THEN [ok |-> FALSE, error |-> fault, all |-> <<>>]
    ELSE IF log = <<>>
    THEN [ok |-> FALSE, error |-> "NoCommitsYet", all |-> <<>>]
    ELSE [ok |-> TRUE, error |-> "none", all |-> log]

\* Array.prototype.filter with commitBelongsToQueue
RECURSIVE filterCommits(_, _)
filterCommits(name, all) ==
    IF all = <<>> THEN <<>>
    ELSE IF commitBelongsToQueue(name, Head(all))
         THEN <<Head(all)>> \o filterCommits(name, Tail(all))
         ELSE filterCommits(name, Tail(all))

\* Queue.loadMessagesFromGit with a catch that rethrows nothing.
loadMessagesFromGit_swallowingAll(name, repo, log, fault, prev) ==
    LET gl == gitLog(log, fault)
        commits == filterCommits(name, gl.all)
        msgs == [i \in 1..Len(commits) |-> messageFactoryFromCommit(commits[i])]
    IN  IF ~repo
        THEN [status |-> "InvalidGitDir", storedMessages |-> prev]
        ELSE IF ~gl.ok
        THEN [status |-> "ok", storedMessages |-> prev]
        ELSE IF \E i \in 1..Len(msgs) : msgs[i].kind = "Invalid"
        THEN [status |-> "ok", storedMessages |-> prev]
        ELSE [status |-> "ok", storedMessages |-> msgs]

\* Queue.loadMessagesFromGit without the checkIsRepo test.
loadMessagesFromGit_withoutRepoCheck(name, repo, log, fault, prev) ==
    LET gl == gitLog(log, fault)
        commits == filterCommits(name, gl.all)
        msgs == [i \in 1..Len(commits) |-> messageFactoryFromCommit(commits[i])]
    IN  IF ~gl.ok
        THEN IF gl.error = "NoCommitsYet"
             THEN [status |-> "ok", storedMessages |-> prev]
             ELSE [status |-> gl.error, storedMessages |-> prev]
        ELSE IF \E i \in 1..Len(msgs) : msgs[i].kind = "Invalid"
        THEN [status |-> "InvalidQueueMessage", storedMessages |-> prev]
        ELSE [status |-> "ok", storedMessages |-> msgs]

\* Queue.loadMessagesFromGit: the stored messages after the call (prev when
\* the branch has no commits yet: the catch assigns nothing), or the error
\* thrown: not a repository, the message factory's, or the log's other one.
loadMessagesFromGit(name, repo, log, fault, prev) ==
    LET gl == gitLog(log, fault)
        commits == filterCommits(name, gl.all)
        msgs == [i \in 1..Len(commits) |-> messageFactoryFromCommit(commits[i])]
    IN  IF ~repo
        THEN [status |-> "InvalidGitDir", storedMessages |-> prev]
        ELSE IF ~gl.ok
        THEN IF gl.error = "NoCommitsYet"
             THEN [status |-> "ok", storedMessages |-> prev]
             ELSE [status |-> gl.error, storedMessages |-> prev]
        ELSE IF \E i \in 1..Len(msgs) : msgs[i].kind = "Invalid"
        THEN [status |-> "InvalidQueueMessage", storedMessages |-> prev]
        ELSE [status |-> "ok", storedMessages |-> msgs]

\* Queue.isEmpty
isEmpty(q) == Len(q.storedMessages) = 0

\* Queue.getLatestMessage taking the other end of the stored messages.
getLatestMessage_oldest(q) ==
    IF isEmpty(q) THEN nullMessage ELSE q.storedMessages[Len(q.storedMessages)]

\* Queue.getLatestMessage
getLatestMessage(q) == IF isEmpty(q) THEN nullMessage ELSE q.storedMessages[1]

\* Queue.getNextJob without the test of the latest message's class.
getNextJob_anyLatest(q) == getLatestMessage(q)

\* Queue.getNextJob
getNextJob(q) ==
    LET latestMessage == getLatestMessage(q)
    IN  IF latestMessage.kind = "StoredCreateJobMessage"
        THEN latestMessage
        ELSE nullMessage

\* Queue.guardThatThereIsNoPendingJobs: TRUE when it does not throw.
guardThatThereIsNoPendingJobs(q) == isEmptyMessage(getNextJob(q))

\* Queue.guardThatThereIsAPendingJob: TRUE when it does not throw.
guardThatThereIsAPendingJob(q) == ~isEmptyMessage(getNextJob(q))

\* Queue.buildCommitMessage with the two prefixes taken for each other.
buildCommitMessage_swappedPrefixes(name, kind, pl) ==
    IF kind = "CreateJobMessage"
    THEN <<MARK_JOB_AS_DONE_SUBJECT_PREFIX \o name, pl>>
    ELSE <<CREATE_JOB_SUBJECT_PREFIX \o name, pl>>

\* Queue.buildCommitMessage: [subject, body] of the commit of a message.
buildCommitMessage(name, kind, pl) ==
    IF kind = "CreateJobMessage"
    THEN <<CREATE_JOB_SUBJECT_PREFIX \o name, pl>>
    ELSE <<MARK_JOB_AS_DONE_SUBJECT_PREFIX \o name, pl>>

\* SimpleGit.commit(message, options): the commit put on the branch tip.
gitCommit(message, options, hash) ==
    [hash |-> hash, message |-> message[1], body |-> message[2],
     author |-> recordedAuthor(options), signature |-> recordedSignature(options)]

(* ------------------------------ actions -------------------------------- *)

Init ==
    /\ remote \in InitialLogs
    /\ local = [p \in Procs |-> remote]
    /\ remoteConfigured \in {[p \in Procs |-> TRUE], [p \in Procs |-> FALSE]}
    /\ isRepo = [p \in Procs |-> TRUE]
    /\ queue = [p \in Procs |-> noQueue]
    /\ pushCalls = [p \in Procs |-> <<>>]
    /\ gitPushes = [p \in Procs |-> <<>>]
    /\ result = [p \in Procs |-> noResult]
    /\ nextHash = 1

\* Queue.create(name, gitRepoDir, git): construct and load the messages.
QueueCreate(p, n, fault) ==
    LET ld == loadMessagesFromGit(n, isRepo[p], local[p], fault, <<>>)
    IN  /\ queue' = [queue EXCEPT ![p] =
                        IF ld.status = "ok"
                        THEN [exists |-> TRUE, name |-> n,
                              storedMessages |-> ld.storedMessages]
                        ELSE noQueue]
        /\ result' = [result EXCEPT ![p] =
                        [noResult EXCEPT !.op = "create", !.status = ld.status]]
        /\ UNCHANGED <<remote, local, remoteConfigured, isRepo, pushCalls,
                       gitPushes, nextHash>>

\* Queue.commitMessage -> commitAndPush: commit (git.commit, then reload the
\* messages), then push() is called and not awaited, and the commit returned.
commitMessage(p, op, kind, pl, co, fault) ==
    LET q == queue[p]
        commit == gitCommit(buildCommitMessage(q.name, kind, pl), forSimpleGit(co),
                            nextHash)
        newLog == <<commit>> \o local[p]
        ld == loadMessagesFromGit(q.name, isRepo[p], newLog, fault, q.storedMessages)
    IN  /\ nextHash <= MaxCommits
        /\ local' = [local EXCEPT ![p] = newLog]
        /\ nextHash' = nextHash + 1
        /\ IF ld.status = "ok"
           THEN /\ queue' = [queue EXCEPT ![p].storedMessages = ld.storedMessages]
                /\ pushCalls' = [pushCalls EXCEPT ![p] = Append(@, commit.hash)]
                /\ result' = [result EXCEPT ![p] =
                                [noResult EXCEPT !.op = op, !.status = "ok",
                                                 !.hash = commit.hash, !.payload = pl]]
           ELSE /\ result' = [result EXCEPT ![p] =
                                [noResult EXCEPT !.op = op, !.status = ld.status]]
                /\ UNCHANGED <<queue, pushCalls>>
        /\ UNCHANGED <<remote, remoteConfigured, isRepo, gitPushes>>

\* Queue.createJob committing before it tests the guard.
CreateJob_commitBeforeGuard(p, pl, co, fault) ==
    /\ queue[p].exists
    /\ IF guardThatThereIsNoPendingJobs(queue[p])
       THEN commitMessage(p, "createJob", "CreateJobMessage", pl, co, fault)
       ELSE /\ nextHash <= MaxCommits
            /\ local' = [local EXCEPT ![p] =
                            <<gitCommit(buildCommitMessage(queue[p].name,
                                                           "CreateJobMessage", pl),
                                        forSimpleGit(co), nextHash)>> \o @]
            /\ nextHash' = nextHash + 1
            /\ result' = [result EXCEPT ![p] =
                            [noResult EXCEPT !.op = "createJob",
                                !.status = "JobAlreadyPending",
                                !.pending = commitHash(getNextJob(queue[p]))]]
            /\ UNCHANGED <<remote, remoteConfigured, isRepo, queue, pushCalls,
                           gitPushes>>

\* Queue.createJob(payload, commitOptions)
CreateJob(p, pl, co, fault) ==
    /\ queue[p].exists
    /\ IF guardThatThereIsNoPendingJobs(queue[p])
       THEN commitMessage(p, "createJob", "CreateJobMessage", pl, co, fault)
       ELSE /\ result' = [result EXCEPT ![p] =
                            [noResult EXCEPT !.op = "createJob",
                                !.status = "JobAlreadyPending",
                                !.pending = commitHash(getNextJob(queue[p]))]]
            /\ UNCHANGED <<remote, local, remoteConfigured, isRepo, queue,
                           pushCalls, gitPushes, nextHash>>

\* Queue.markJobAsDone(payload, commitOptions)
MarkJobAsDone(p, pl, co, fault) ==
    /\ queue[p].exists
    /\ IF guardThatThereIsAPendingJob(queue[p])
       THEN commitMessage(p, "markJobAsDone", "MarkJobAsDoneMessage", pl, co, fault)
       ELSE /\ result' = [result EXCEPT ![p] =
                            [noResult EXCEPT !.op = "markJobAsDone",
                                !.status = "NoPendingJob"]]
            /\ UNCHANGED <<remote, local, remoteConfigured, isRepo, queue,
                           pushCalls, gitPushes, nextHash>>

\* run, case ACTION_NEXT_JOB: the outputs set from queue.getNextJob(), each
\* a pair of the output's name and its value.
NextJob(p) ==
    LET nextJob == getNextJob(queue[p])
    IN  /\ queue[p].exists
        /\ result' = [result EXCEPT ![p] =
                        [noResult EXCEPT !.op = "nextJob", !.status = "ok",
                            !.outputs =
                                {<<"job_found", ~isEmptyMessage(nextJob)>>}
                                \cup (IF ~isEmptyMessage(nextJob)
                                      THEN {<<"job_commit", commitHash(nextJob)>>,
                                            <<"job_payload", payload(nextJob)>>}
                                      ELSE {})]]
        /\ UNCHANGED <<remote, local, remoteConfigured, isRepo, queue, pushCalls,
                       gitPushes, nextHash>>

\* Queue.push, resumed after `await this.git.remote([])`: with a remote it
\* starts git.push() and returns without awaiting it.
PushRemoteCheck(p) ==
    /\ pushCalls[p] # <<>>
    /\ pushCalls' = [pushCalls EXCEPT ![p] = Tail(@)]
    /\ IF remoteConfigured[p]
       THEN gitPushes' = [gitPushes EXCEPT ![p] = Append(@, Head(pushCalls[p]))]
       ELSE UNCHANGED gitPushes
    /\ UNCHANGED <<remote, local, remoteConfigured, isRepo, queue, result,
                   nextHash>>

\* The remote takes a push only if the pushed log descends from its tip.
remoteAccepts(pushed, tip) == EndsWith(pushed, tip)

\* SimpleGit.push(), started by Queue.push: the remote takes the local
\* branch or rejects it; the rejection reaches no caller.
GitPush(p) ==
    /\ gitPushes[p] # <<>>
    /\ gitPushes' = [gitPushes EXCEPT ![p] = Tail(@)]
    /\ IF remoteAccepts(local[p], remote)
       THEN remote' = local[p]
       ELSE UNCHANGED remote
    /\ UNCHANGED <<local, remoteConfigured, isRepo, queue, pushCalls, result,
                   nextHash>>

\* One process runs the action again and again on its clone.
Next ==
    \/ \E p \in Solo, n \in Names : QueueCreate(p, n, "none")
    \/ \E p \in Solo, pl \in Payloads :
          CreateJob(p, pl, commitOptionsForTests, "none")
    \/ \E p \in Solo, pl \in Payloads :
          MarkJobAsDone(p, pl, commitOptionsForTests, "none")
    \/ \E p \in Solo : PushRemoteCheck(p)
    \/ \E p \in Solo : GitPush(p)

Spec == Init /\ [][Next]_vars

\* Two processes, each on its own clone of the same remote.
InitRace ==
    /\ Init
    /\ \A p \in Procs : remoteConfigured[p]

NextRace ==
    \/ \E p \in Procs, n \in Names : QueueCreate(p, n, "none")
    \/ \E p \in Procs, pl \in RacePayloads :
          CreateJob(p, pl, commitOptionsForTests, "none")
    \/ \E p \in Procs, pl \in RacePayloads :
          MarkJobAsDone(p, pl, commitOptionsForTests, "none")
    \/ \E p \in Procs : PushRemoteCheck(p)
    \/ \E p \in Procs : GitPush(p)

SpecRace == InitRace /\ [][NextRace]_vars

\* One process runs the action with any of its three operations.
NextShell ==
    \/ Next
    \/ \E p \in Solo : NextJob(p)

SpecShell == Init /\ [][NextShell]_vars

\* One process on a clone of a remote without commits, whose calls carry
\* every CommitOptions value.
InitOptions ==
    /\ Init
    /\ remote = <<>>
    /\ \A p \in Procs : remoteConfigured[p]

NextOptions ==
    \/ \E p \in Solo, n \in Names : QueueCreate(p, n, "none")
    \/ \E p \in Solo, pl \in PlainPayloads, co \in CommitOptionsValues :
          nextHash <= MaxOptionCommits /\ CreateJob(p, pl, co, "none")
    \/ \E p \in Solo, pl \in PlainPayloads, co \in CommitOptionsValues :
          nextHash <= MaxOptionCommits /\ MarkJobAsDone(p, pl, co, "none")
    \/ \E p \in Solo : PushRemoteCheck(p)
    \/ \E p \in Solo : GitPush(p)

SpecOptions == InitOptions /\ [][NextOptions]_vars

\* One process whose directory may be no repository (it then has no log)
\* and whose reads of the log may fail.
InitFaults ==
    /\ remote \in InitialLogs
    /\ isRepo \in {[p \in Procs |-> TRUE], [p \in Procs |-> FALSE]}
    /\ local = [p \in Procs |-> IF isRepo[p] THEN remote ELSE <<>>]
    /\ remoteConfigured = [p \in Procs |-> isRepo[p]]
    /\ queue = [p \in Procs |-> noQueue]
    /\ pushCalls = [p \in Procs |-> <<>>]
    /\ gitPushes = [p \in Procs |-> <<>>]
    /\ result = [p \in Procs |-> noResult]
    /\ nextHash = 1

NextFaults ==
    \/ \E p \in Solo, n \in Names, fault \in LogFaults : QueueCreate(p, n, fault)
    \/ \E p \in Solo, pl \in PlainPayloads, fault \in LogFaults :
          CreateJob(p, pl, commitOptionsForTests, fault)
    \/ \E p \in Solo, pl \in PlainPayloads, fault \in LogFaults :
          MarkJobAsDone(p, pl, commitOptionsForTests, fault)
    \/ \E p \in Solo : PushRemoteCheck(p)
    \/ \E p \in Solo : GitPush(p)

SpecFaults == InitFaults /\ [][NextFaults]_vars

(* ------------------- the queue's own events in a log -------------------- *)

\* Queue.createJobCommitSubject
createJobCommitSubject(name) == CREATE_JOB_SUBJECT_PREFIX \o name

\* Queue.markJobAsDoneCommitSubject
markJobAsDoneCommitSubject(name) == MARK_JOB_AS_DONE_SUBJECT_PREFIX \o name

\* Queue.isCreateJobCommit: the subject is exactly the queue's lock-claim subject.
isCreateJobCommit(name, commit) == commit.message = createJobCommitSubject(name)

\* Queue.isMarkJobAsDoneCommit: exactly the queue's lock-release subject.
isMarkJobAsDoneCommit(name, commit) == commit.message = markJobAsDoneCommitSubject(name)

\* The commits of a log that are events of the queue named name, most
\* recent first: those with exactly one of the queue's two subjects.
RECURSIVE queueEvents(_, _)
queueEvents(name, log) ==
    IF log = <<>> THEN <<>>
    ELSE IF isCreateJobCommit(name, Head(log)) \/ isMarkJobAsDoneCommit(name, Head(log))
         THEN <<Head(log)>> \o queueEvents(name, Tail(log))
         ELSE queueEvents(name, Tail(log))

\* The queue has a pending job in the log: its latest event is a JobCreated.
hasPendingJob(name, log) ==
    LET ev == queueEvents(name, log)
    IN  ev # <<>> /\ isCreateJobCommit(name, ev[1])

\* The part of a log the clone started from.
RECURSIVE initialPart(_)
initialPart(log) ==
    IF log = <<>> \/ Head(log).hash < 0 THEN log ELSE initialPart(Tail(log))

\* Oldest first the events are JobCreated, JobCompleted, JobCreated, ...
alternates(name, ev) ==
    /\ ev # <<>> => isCreateJobCommit(name, ev[Len(ev)])
    /\ \A i \in 1..(Len(ev) - 1) :
          isCreateJobCommit(name, ev[i]) # isCreateJobCommit(name, ev[i + 1])

(* ------------------------------- claims -------------------------------- *)

\* The step is a call of createJob(pl, commitOptionsForTests()) by p during
\* which the log can be read.
calledCreateJob(p, pl) == CreateJob(p, pl, commitOptionsForTests, "none")

\* The step is such a call of markJobAsDone.
calledMarkJobAsDone(p, pl) == MarkJobAsDone(p, pl, commitOptionsForTests, "none")

\* C1: after a createJob that succeeded, getNextJob on that Queue returns a
\* non-empty message whose payload is the submitted payload with only the
\* leading and trailing whitespace trimmed and whose commit hash is the
\* commit identifier createJob returned.
C1_CreateJobThenGetNextJob ==
    \A p \in Procs :
        (result[p].op = "createJob" /\ result[p].status = "ok")
        => LET nextJob == getNextJob(queue[p])
           IN  /\ ~isEmptyMessage(nextJob)
               /\ payload(nextJob) = Trim(result[p].payload)
               /\ commitHash(nextJob) = result[p].hash

\* C1 witness: a createJob with a payload that has whitespace at both ends
\* succeeded on a branch that already held other commits of the queue.
C1_Witness ==
    \E p \in Procs :
        /\ result[p].op = "createJob" /\ result[p].status = "ok"
        /\ result[p].payload = <<" ", "y", "\n">>
        /\ Len(queue[p].storedMessages) >= 3

\* C2: createJob on a queue whose latest event in the log is a JobCreated
\* always fails with JobAlreadyPending, naming the pending commit's hash.
C2_SecondCreateJobFails ==
    [][\A p \in Procs, pl \in Payloads :
          (calledCreateJob(p, pl) /\ hasPendingJob(queue[p].name, local[p]))
          => /\ result'[p].status = "JobAlreadyPending"
             /\ result'[p].pending = queueEvents(queue[p].name, local[p])[1].hash]_vars

\* C3: markJobAsDone on a queue that has no pending job in the log (no
\* events, or the latest is a JobCompleted) always fails with NoPendingJob.
C3_MarkJobAsDoneWithoutJobFails ==
    [][\A p \in Procs, pl \in Payloads :
          (calledMarkJobAsDone(p, pl) /\ ~hasPendingJob(queue[p].name, local[p]))
          => result'[p].status = "NoPendingJob"]_vars

\* C4: after a markJobAsDone that succeeded, getNextJob on that Queue is
\* empty, and a createJob that follows on it succeeds, whatever number of
\* create/done cycles came before.
C4_DoneFreesTheSlot ==
    [][\A p \in Procs :
          /\ (result'[p].op = "markJobAsDone" /\ result'[p].status = "ok")
             => isEmptyMessage(getNextJob(queue'[p]))
          /\ (result[p].op = "markJobAsDone" /\ result[p].status = "ok")
             => \A pl \in Payloads :
                   calledCreateJob(p, pl)
                   => /\ result'[p].op = "createJob" /\ result'[p].status = "ok"
                      /\ local'[p] # local[p]]_vars

\* C4 witness: in this run the queue went through createJob, markJobAsDone
\* and a createJob again, the last one successful, after an earlier cycle.
C4_Witness ==
    \E p \in Procs :
        /\ result[p].op = "createJob" /\ result[p].status = "ok"
        /\ Len(local[p]) >= 5
        /\ local[p][1].hash = result[p].hash
        /\ local[p][2].hash > 0 /\ isMarkJobAsDoneCommit(queue[p].name, local[p][2])
        /\ local[p][3].hash > 0 /\ isCreateJobCommit(queue[p].name, local[p][3])
        /\ isMarkJobAsDoneCommit(queue[p].name, local[p][4])
        /\ isCreateJobCommit(queue[p].name, local[p][5])

\* C5: for a queue with no events in the log (no commits at all, or only
\* commits of other queues and unrelated commits) the Queue is constructed
\* with getNextJob empty, and createJob on it succeeds.
C5_FreshQueueIsFree ==
    [][\A p \in Procs :
          /\ \A n \in Names :
                (QueueCreate(p, n, "none") /\ queueEvents(n, local[p]) = <<>>)
                => /\ result'[p].status = "ok"
                   /\ isEmptyMessage(getNextJob(queue'[p]))
          /\ \A pl \in Payloads :
                (calledCreateJob(p, pl) /\ queueEvents(queue[p].name, local[p]) = <<>>)
                => result'[p].status = "ok"]_vars

\* C6: calls on a queue named A never change the event sequence loaded for
\* a queue with another name B, nor make getNextJob on B return a job.
C6_QueuesAreIsolated ==
    [][\A p \in Procs, n \in Names :
          (queue[p].exists /\ queue[p].name # n /\ local'[p] # local[p])
          => LET before == loadMessagesFromGit(n, TRUE, local[p], "none", <<>>)
                 after == loadMessagesFromGit(n, TRUE, local'[p], "none", <<>>)
             IN  /\ after = before
                 /\ isEmptyMessage(getNextJob(before))
                    => isEmptyMessage(getNextJob(after))]_vars

\* C7: from a log with no events of the queue, whatever createJob and
\* markJobAsDone calls are made, the queue's events in the log alternate
\* JobCreated, JobCompleted, JobCreated, ..., starting with JobCreated.
C7_EventsAlternate ==
    \A p \in Procs, n \in Names :
        queueEvents(n, initialPart(local[p])) = <<>>
        => alternates(n, queueEvents(n, local[p]))

\* C8: the remote log never holds two JobCreated events of a queue without
\* a JobCompleted of that queue between them.
C8_RemoteHoldsOnePendingJob ==
    \A n \in Names :
        LET ev == queueEvents(n, remote)
        IN  \A i \in 1..(Len(ev) - 1) :
               ~(isCreateJobCommit(n, ev[i]) /\ isCreateJobCommit(n, ev[i + 1]))

\* C9: no call whose push was rejected returned a commit identifier as a
\* success: when the remote rejects the push of a commit, the call that
\* made the commit has not returned it.
C9_RejectedPushFailsTheCall ==
    [][\A p \in Procs :
          (GitPush(p) /\ ~remoteAccepts(local[p], remote))
          => ~(result[p].status = "ok" /\ result[p].hash = Head(gitPushes[p]))]_vars

\* C10: a successful createJob or markJobAsDone has put the new commit on
\* the local branch tip and, with a remote configured, on the remote's tip
\* by the time it returns; without a remote no push is started.
C10_SuccessAdvancesBothTips ==
    [][\A p \in Procs, pl \in Payloads :
          ((calledCreateJob(p, pl) \/ calledMarkJobAsDone(p, pl))
           /\ result'[p].status = "ok")
          => /\ Len(local'[p]) = Len(local[p]) + 1
             /\ local'[p][1].hash = result'[p].hash
             /\ remoteConfigured[p]
                => (remote' # <<>> /\ remote'[1].hash = result'[p].hash)
             /\ ~remoteConfigured[p] => gitPushes'[p] = <<>>]_vars

\* The sign and no-sign directives among those handed to git.commit.
signingDirectives(options) == directives(options, {"--gpg-sign", "--no-gpg-sign"})

\* The one signing discipline the options are to carry: the key's if there
\* is a key, else the suppression if the flag is set, else none.
oneSigningDiscipline(co) ==
    IF ~signingKeyIdIsEmpty(co.gpgSig)
    THEN << [flag |-> "--gpg-sign", value |-> co.gpgSig] >>
    ELSE IF co.noGpgSig
    THEN << [flag |-> "--no-gpg-sign", value |-> "null"] >>
    ELSE <<>>

\* C11: for every CommitOptions value the directives handed to the commit
\* of a createJob or markJobAsDone carry exactly one signing discipline
\* (sign with the key if there is one, else suppress if the flag is set,
\* else neither), never sign and suppress together, and the commit is
\* signed accordingly.
C11_OneSigningDiscipline ==
    [][\A p \in Procs, pl \in Payloads, co \in CommitOptionsValues :
          ((CreateJob(p, pl, co, "none") \/ MarkJobAsDone(p, pl, co, "none"))
           /\ result'[p].status = "ok")
          => /\ signingDirectives(forSimpleGit(co)) = oneSigningDiscipline(co)
             /\ local'[p][1].signature = recordedSignature(oneSigningDiscipline(co))]_vars

\* C12: a createJob or markJobAsDone given an author makes a commit whose
\* recorded author is that identity; given the empty author it hands no
\* author directive to the commit, which git then records for its
\* configured user.
C12_AuthorIsRecorded ==
    [][\A p \in Procs, pl \in Payloads, co \in CommitOptionsValues :
          ((CreateJob(p, pl, co, "none") \/ MarkJobAsDone(p, pl, co, "none"))
           /\ result'[p].status = "ok")
          => IF authorIsEmpty(co.author)
             THEN /\ directives(forSimpleGit(co), {"--author"}) = <<>>
                  /\ local'[p][1].author = configuredUser
             ELSE local'[p][1].author = co.author]_vars

\* C12 witness: a call given an author has committed on top of the commit
\* of a call given the empty author.
C12_Witness ==
    \E p \in Procs :
        /\ result[p].status = "ok" /\ Len(local[p]) >= 2
        /\ local[p][1].hash = result[p].hash
        /\ local[p][1].author = <<"A", " ", "<", "a", ">">>
        /\ local[p][2].hash > 0
        /\ local[p][2].author = configuredUser

\* C13: Queue.create on a branch without commits succeeds with no stored
\* messages, and no other failure of the log read is swallowed: it comes
\* out of Queue.create (which then yields no Queue), createJob and
\* markJobAsDone as the error the log read failed with.
C13_OnlyNoCommitsYetIsSwallowed ==
    [][\A p \in Procs, fault \in LogFaults :
          /\ \A n \in Names :
                (QueueCreate(p, n, fault) /\ isRepo[p])
                => /\ (fault = "none" /\ local[p] = <<>>)
                      => /\ result'[p].status = "ok"
                         /\ queue'[p].exists /\ queue'[p].storedMessages = <<>>
                   /\ fault # "none"
                      => (result'[p].status = fault /\ ~queue'[p].exists)
          /\ \A pl \in Payloads :
                /\ (CreateJob(p, pl, commitOptionsForTests, fault) /\ fault # "none"
                    /\ guardThatThereIsNoPendingJobs(queue[p]))
                   => (result'[p].op = "createJob" /\ result'[p].status = fault)
                /\ (MarkJobAsDone(p, pl, commitOptionsForTests, fault) /\ fault # "none"
                    /\ guardThatThereIsAPendingJob(queue[p]))
                   => (result'[p].op = "markJobAsDone" /\ result'[p].status = fault)]_vars

\* C13 witness: a Queue created on a branch without commits has taken a
\* job, and its markJobAsDone failed with the failure of the log read.
C13_Witness ==
    \E p \in Procs :
        /\ queue[p].exists /\ initialPart(local[p]) = <<>>
        /\ result[p].op = "markJobAsDone" /\ result[p].status = "LogReadFailure"

\* C14: in a directory that is no repository Queue.create fails with the
\* invalid-git-dir error whatever the log read would do, yields no Queue,
\* and nothing is committed or pushed there.
C14_NotARepositoryFailsFirst ==
    [][\A p \in Procs :
          /\ \A n \in Names, fault \in LogFaults :
                (QueueCreate(p, n, fault) /\ ~isRepo[p])
                => /\ result'[p].status = "InvalidGitDir"
                   /\ ~queue'[p].exists
          /\ ~isRepo'[p]
             => /\ ~queue'[p].exists
                /\ local'[p] = <<>> /\ remote' = remote /\ nextHash' = nextHash
                /\ pushCalls'[p] = <<>> /\ gitPushes'[p] = <<>>]_vars

\* C14 witness: Queue.create has failed in a directory that is no
\* repository while the log read would have failed as well.
C14_Witness ==
    \E p \in Procs :
        /\ ~isRepo[p] /\ ~queue[p].exists
        /\ result[p].op = "create" /\ result[p].status = "InvalidGitDir"

\* C15: every commit of the branch that the belongs-to-queue filter accepts
\* is made into a stored message of one of the two kinds, so no
\* Queue.create, createJob or markJobAsDone fails with the invalid-message
\* error, whatever other commits the branch holds.
C15_FilteredCommitsAreMessages ==
    [][\A p \in Procs :
          /\ \A n \in Names :
                QueueCreate(p, n, "none")
                => \A i \in 1..Len(local[p]) :
                      commitBelongsToQueue(n, local[p][i])
                      => messageFactoryFromCommit(local[p][i]).kind
                            \in {"StoredCreateJobMessage", "StoredMarkJobAsDoneMessage"}
          /\ result'[p].status # "InvalidQueueMessage"]_vars

\* The queue with only the most recent of its stored messages.
onlyLatest(q) ==
    [q EXCEPT !.storedMessages =
        IF q.storedMessages = <<>> THEN <<>> ELSE <<q.storedMessages[1]>>]

\* C16: the latest message of a Queue is the first of its stored messages,
\* or the null message when it has none; getNextJob is that latest message
\* exactly when it is a job-created message and the null message otherwise;
\* both are what they would be without the older stored messages.
C16_StateIsTheLatestEvent ==
    \A p \in Procs :
        queue[p].exists
        => LET sm == queue[p].storedMessages
               latest == IF sm = <<>> THEN nullMessage ELSE sm[1]
               jobCreated ==
                   /\ sm # <<>>
                   /\ StartsWith(sm[1].commit.message, CREATE_JOB_SUBJECT_PREFIX)
           IN  /\ getLatestMessage(queue[p]) = latest
               /\ isEmptyMessage(getLatestMessage(queue[p])) <=> sm = <<>>
               /\ getNextJob(queue[p]) = IF jobCreated THEN latest ELSE nullMessage
               /\ getLatestMessage(onlyLatest(queue[p])) = getLatestMessage(queue[p])
               /\ getNextJob(onlyLatest(queue[p])) = getNextJob(queue[p])

\* C16 witness: a Queue whose latest stored message is a job-done message
\* and which holds older messages, a job-created one among them.
C16_Witness ==
    \E p \in Procs :
        /\ queue[p].exists /\ Len(queue[p].storedMessages) >= 3
        /\ queue[p].storedMessages[1].kind = "StoredMarkJobAsDoneMessage"
        /\ queue[p].storedMessages[2].kind = "StoredCreateJobMessage"
        /\ queue[p].storedMessages[1].commit.hash > 0

\* The commits of a Queue's stored messages, most recent first.
storedCommits(q) == [i \in 1..Len(q.storedMessages) |-> q.storedMessages[i].commit]

\* C17: when Queue.create has made a Queue, and after every successful
\* createJob or markJobAsDone, the commits of the Queue's stored messages
\* are the queue's own events of the branch log, most recent first (so the
\* commit just made comes first).
C17_SnapshotIsTheFilteredLog ==
    [][\A p \in Procs :
          /\ \A n \in Names :
                (QueueCreate(p, n, "none") /\ result'[p].status = "ok")
                => storedCommits(queue'[p]) = queueEvents(n, local'[p])
          /\ \A pl \in Payloads :
                ((calledCreateJob(p, pl) \/ calledMarkJobAsDone(p, pl))
                 /\ result'[p].status = "ok")
                => /\ storedCommits(queue'[p]) = queueEvents(queue'[p].name, local'[p])
                   /\ storedCommits(queue'[p])[1].hash = result'[p].hash]_vars

\* C18: no push started by a Queue is still under way when the call that
\* started it has returned: between calls neither a push() nor a
\* git.push() of the process is pending.
C18_NoPushOutlivesItsCall ==
    \A p \in Procs : pushCalls[p] = <<>> /\ gitPushes[p] = <<>>

\* C19: a createJob that fails with the job-already-pending error and a
\* markJobAsDone that fails with the no-pending-job error make no commit,
\* start no push, and leave local branch, remote branch and the Queue's
\* stored messages as they were.
C19_FailedGuardChangesNothing ==
    [][\A p \in Procs, pl \in Payloads :
          ((calledCreateJob(p, pl) /\ result'[p].status = "JobAlreadyPending")
           \/ (calledMarkJobAsDone(p, pl) /\ result'[p].status = "NoPendingJob"))
          => /\ local' = local /\ remote' = remote /\ nextHash' = nextHash
             /\ queue' = queue
             /\ pushCalls' = pushCalls /\ gitPushes' = gitPushes]_vars

\* C19 witness: a createJob has failed on the job that an earlier createJob
\* of the run left pending.
C19_Witness ==
    \E p \in Procs :
        /\ result[p].op = "createJob" /\ result[p].status = "JobAlreadyPending"
        /\ local[p] # <<>> /\ local[p][1].hash > 0
        /\ result[p].pending = local[p][1].hash

\* C20: a successful createJob puts exactly one commit with the queue's
\* lock-claim subject, a successful markJobAsDone exactly one with its
\* lock-release subject, in front of the branch log, of the queue's events
\* in it and of the Queue's stored messages; everything that was there
\* before follows unchanged and in the same order.
C20_LogIsAppendOnly ==
    [][\A p \in Procs, pl \in Payloads :
          LET n == queue[p].name
              new == local'[p][1]
              appended ==
                  /\ local'[p] = <<new>> \o local[p]
                  /\ new.hash = result'[p].hash /\ new.body = pl
                  /\ queueEvents(n, local'[p]) = <<new>> \o queueEvents(n, local[p])
                  /\ queue'[p].storedMessages
                        = <<queue'[p].storedMessages[1]>> \o queue[p].storedMessages
                  /\ queue'[p].storedMessages[1].commit = new
          IN  /\ (calledCreateJob(p, pl) /\ result'[p].status = "ok")
                 => /\ appended
                    /\ new.message = createJobCommitSubject(n)
                    /\ queue'[p].storedMessages[1].kind = "StoredCreateJobMessage"
              /\ (calledMarkJobAsDone(p, pl) /\ result'[p].status = "ok")
                 => /\ appended
                    /\ new.message = markJobAsDoneCommitSubject(n)
                    /\ queue'[p].storedMessages[1].kind = "StoredMarkJobAsDoneMessage"]_vars

\* C20 witness: a markJobAsDone has succeeded on a queue that then has at
\* least four events in the log, two of them from earlier runs.
C20_Witness ==
    \E p \in Procs :
        /\ result[p].op = "markJobAsDone" /\ result[p].status = "ok"
        /\ Len(queueEvents(queue[p].name, local[p])) >= 4
        /\ Len(queueEvents(queue[p].name, initialPart(local[p]))) = 2

\* C21: markJobAsDone on a queue whose latest event in the log is a
\* JobCreated succeeds for every payload, the pending job's or another, and
\* releases that job: no job is pending afterwards, in the log or for
\* getNextJob.
C21_PendingJobIsAllDoneNeeds ==
    [][\A p \in Procs, pl \in Payloads :
          (calledMarkJobAsDone(p, pl) /\ hasPendingJob(queue[p].name, local[p]))
          => /\ result'[p].status = "ok"
             /\ isMarkJobAsDoneCommit(queue[p].name, local'[p][1])
             /\ Tail(local'[p]) = local[p]
             /\ ~hasPendingJob(queue[p].name, local'[p])
             /\ isEmptyMessage(getNextJob(queue'[p]))]_vars

\* C22: the next-job operation sets job_found to true exactly when the
\* queue has a pending job in the log; it then sets job_commit and
\* job_payload to that job's commit and trimmed payload, and otherwise sets
\* neither, so the hash and payload of the null message are never output.
C22_NextJobReportsThePendingJob ==
    [][\A p \in Procs :
          NextJob(p)
          => LET outputs == result'[p].outputs
                 n == queue[p].name
                 found == <<"job_found", TRUE>> \in outputs
             IN  /\ found # (<<"job_found", FALSE>> \in outputs)
                 /\ found <=> hasPendingJob(n, local[p])
                 /\ found
                    => outputs = {<<"job_found", TRUE>>,
                                  <<"job_commit", queueEvents(n, local[p])[1].hash>>,
                                  <<"job_payload", Trim(queueEvents(n, local[p])[1].body)>>}
                 /\ ~found => outputs = {<<"job_found", FALSE>>}
                 /\ <<"job_commit", EmptyHash>> \notin outputs]_vars

====
